---- MODULE Spec2Model ----
(***************************************************************************)
(* A model of scripts/sync-stories.py: the retrying GitHub CLI runner, the *)
(* issue mapper (labels, checkbox reconciliation) and the sync             *)
(* orchestrator.  Texts are sequences of one-character strings, so that    *)
(* substring tests, case folding and the regular expressions of the script *)
(* are computed rather than assumed.                                       *)
(***************************************************************************)
EXTENDS Integers, Sequences, FiniteSets, TLC

(***************************************************************************)
(* Text primitives (Python str operations used by the script).             *)
(***************************************************************************)
NL == "\n"

UpperAlpha ==
    <<"A", "B", "C", "D", "E", "F", "G", "H", "I", "J", "K", "L", "M",
      "N", "O", "P", "Q", "R", "S", "T", "U", "V", "W", "X", "Y", "Z">>

LowerAlpha ==
    <<"a", "b", "c", "d", "e", "f", "g", "h", "i", "j", "k", "l", "m",
      "n", "o", "p", "q", "r", "s", "t", "u", "v", "w", "x", "y", "z">>

\* str.lower() on one character
lower_char(c) ==
    IF \E i \in 1..26 : UpperAlpha[i] = c
    THEN LowerAlpha[CHOOSE i \in 1..26 : UpperAlpha[i] = c]
    ELSE c

\* str.lower()
lower(s) == [i \in 1..Len(s) |-> lower_char(s[i])]

\* Python's `needle in hay` on str
str_in(needle, hay) ==
    \E i \in 0..(Len(hay) - Len(needle)) :
        SubSeq(hay, i + 1, i + Len(needle)) = needle

RECURSIVE concat(_)
\* "".join(parts)
concat(parts) ==
    IF parts = <<>> THEN <<>> ELSE Head(parts) \o concat(Tail(parts))

RECURSIVE join(_, _)
\* sep.join(parts)
join(sep, parts) ==
    IF parts = <<>> THEN <<>>
    ELSE IF Len(parts) = 1 THEN parts[1]
    ELSE parts[1] \o sep \o join(sep, Tail(parts))

Digits == <<"0", "1", "2", "3", "4", "5", "6", "7", "8", "9">>

RECURSIVE str_int(_)
\* str(n) of a natural number (the f-string conversion of an int)
str_int(n) ==
    IF n < 10 THEN <<Digits[n + 1]>>
    ELSE str_int(n \div 10) \o <<Digits[(n % 10) + 1]>>

(***************************************************************************)
(* Regular-expression matching (re) on texts, as far as the script's       *)
(* patterns need it                                                        *)
(***************************************************************************)
\* \s
is_space(c) == c \in {" ", "\n", "\t", "\r"}

RECURSIVE lstrip(_)
lstrip(s) == IF s # <<>> /\ is_space(Head(s)) THEN lstrip(Tail(s)) ELSE s

RECURSIVE rstrip(_)
rstrip(s) ==
    IF s # <<>> /\ is_space(s[Len(s)]) THEN rstrip(SubSeq(s, 1, Len(s) - 1)) ELSE s

\* str.strip()
strip(s) == rstrip(lstrip(s))

\* str.startswith
startswith(s, prefix) ==
    Len(s) >= Len(prefix) /\ SubSeq(s, 1, Len(prefix)) = prefix

\* the literal `lit` stands in s at index i
literal_at(s, i, lit) ==
    i >= 1 /\ i + Len(lit) - 1 <= Len(s) /\ SubSeq(s, i, i + Len(lit) - 1) = lit

RECURSIVE ws_run(_, _)
\* the length of the run of \s characters of s that starts at index j
ws_run(s, j) ==
    IF j <= Len(s) /\ is_space(s[j]) THEN 1 + ws_run(s, j + 1) ELSE 0

RECURSIVE next_nl(_, _)
\* the index of the first newline of s after index p, Len(s) + 1 when none
next_nl(s, p) ==
    IF p + 1 > Len(s) THEN Len(s) + 1
    ELSE IF s[p + 1] = NL THEN p + 1
    ELSE next_nl(s, p + 1)

\* `\s{minws,}(.+?)` followed by `(?=\n|$)` or `(?:\n|$)` (need_nl FALSE) or by
\* a literal `\n` (need_nl TRUE), tried at index j of s.  The greedy \s gives
\* characters back one by one until the lazy group finds a character that is
\* not a newline (and, for a literal `\n`, a newline after it); the group then
\* runs up to the next newline or the end of s.
ws_text_match(s, j, minws, need_nl) ==
    LET w == ws_run(s, j)
        valid(k) == /\ j + k <= Len(s)
                    /\ s[j + k] # NL
                    /\ (need_nl => next_nl(s, j + k) <= Len(s))
        ks == {k \in minws..w : valid(k)}
    IN IF ks = {} THEN [ok |-> FALSE, from |-> 0, to |-> 0]
       ELSE LET k == CHOOSE x \in ks : \A y \in ks : y <= x
            IN [ok |-> TRUE, from |-> j + k, to |-> next_nl(s, j + k) - 1]

(***************************************************************************)
(* Configuration constants                                                 *)
(***************************************************************************)
MAX_RETRIES == 3
RETRY_BASE_DELAY == 2

RATE_LIMIT_PATTERNS ==
    << <<"r", "a", "t", "e", " ", "l", "i", "m", "i", "t">>,
       <<"s", "e", "c", "o", "n", "d", "a", "r", "y", " ",
         "r", "a", "t", "e", " ", "l", "i", "m", "i", "t">>,
       <<"a", "p", "i", " ", "r", "a", "t", "e", " ", "l", "i", "m", "i", "t">>,
       <<"4", "2", "9">> >>

NON_RETRYABLE_ERRORS ==
    << <<"4", "0", "1">>,
       <<"4", "0", "4">>,
       <<"4", "2", "2">>,
       <<"a", "u", "t", "h", "e", "n", "t", "i", "c", "a", "t", "i", "o", "n">>,
       <<"u", "n", "a", "u", "t", "h", "o", "r", "i", "z", "e", "d">>,
       <<"n", "o", "t", " ", "f", "o", "u", "n", "d">>,
       <<"i", "n", "v", "a", "l", "i", "d">>,
       <<"p", "e", "r", "m", "i", "s", "s", "i", "o", "n", " ",
         "d", "e", "n", "i", "e", "d">> >>

(***************************************************************************)
(* is_retryable_error                                                      *)
(***************************************************************************)
RECURSIVE first_match(_, _, _)
\* `for pattern in patterns: if pattern.lower() in text: return ...`:
\* the index of the first pattern found in text, 0 when the loop runs out.
first_match(patterns, text, i) ==
    IF i > Len(patterns) THEN 0
    ELSE IF str_in(lower(patterns[i]), text) THEN i
    ELSE first_match(patterns, text, i + 1)

\* A plausible slip: the non-retryable list is consulted first.
is_retryable_error_nonretryable_first(stderr) ==
    LET stderr_lower == lower(stderr) IN
    IF first_match(NON_RETRYABLE_ERRORS, stderr_lower, 1) > 0 THEN FALSE
    ELSE TRUE

is_retryable_error(stderr) ==
    LET stderr_lower == lower(stderr) IN
    IF first_match(RATE_LIMIT_PATTERNS, stderr_lower, 1) > 0 THEN TRUE
    ELSE IF first_match(NON_RETRYABLE_ERRORS, stderr_lower, 1) > 0 THEN FALSE
    ELSE TRUE

(***************************************************************************)
(* Literal texts of the markdown and issue-body formats                    *)
(***************************************************************************)
T_status == <<"*", "*", "S", "t", "a", "t", "u", "s", ":", "*", "*">>
T_status_done == T_status \o <<" ", "D", "o", "n", "e">>

N_user_story == <<"U", "s", "e", "r", " ", "S", "t", "o", "r", "y">>
N_acceptance_criteria ==
    <<"A", "c", "c", "e", "p", "t", "a", "n", "c", "e", " ",
      "C", "r", "i", "t", "e", "r", "i", "a">>
N_tasks == <<"T", "a", "s", "k", "s">>
N_implementation_details ==
    <<"I", "m", "p", "l", "e", "m", "e", "n", "t", "a", "t", "i", "o", "n", " ",
      "D", "e", "t", "a", "i", "l", "s">>
N_dependencies == <<"D", "e", "p", "e", "n", "d", "e", "n", "c", "i", "e", "s">>
N_notes == <<"N", "o", "t", "e", "s">>
T_points ==
    <<"*", "*", "S", "t", "o", "r", "y", " ", "P", "o", "i", "n", "t", "s", ":", "*", "*">>

\* "## <Name>" and the part "## <Name>\n" of a body
section_mark(name) == <<"#", "#", " ">> \o name
H_user_story == section_mark(N_user_story) \o <<NL>>
H_acceptance_criteria == section_mark(N_acceptance_criteria) \o <<NL>>
H_tasks == section_mark(N_tasks) \o <<NL>>
H_implementation_details == section_mark(N_implementation_details) \o <<NL>>
H_dependencies == section_mark(N_dependencies) \o <<NL>>
H_notes == section_mark(N_notes) \o <<NL>>
T_story_points == T_points \o <<" ">>

(***************************************************************************)
(* parse_user_story                                                        *)
(***************************************************************************)
EPIC_LABELS ==
    << [key |-> <<"e", "p", "i", "c", "-", "1">>,
        label |-> <<"e", "p", "i", "c", "-", "1", "-", "i", "n", "f", "r", "a",
                    "s", "t", "r", "u", "c", "t", "u", "r", "e">>],
       [key |-> <<"e", "p", "i", "c", "-", "2">>,
        label |-> <<"e", "p", "i", "c", "-", "2", "-", "e", "n", "v", "i", "r",
                    "o", "n", "m", "e", "n", "t", "s">>],
       [key |-> <<"e", "p", "i", "c", "-", "3">>,
        label |-> <<"e", "p", "i", "c", "-", "3", "-", "d", "a", "t", "a", "b",
                    "a", "s", "e">>],
       [key |-> <<"e", "p", "i", "c", "-", "4">>,
        label |-> <<"e", "p", "i", "c", "-", "4", "-", "o", "b", "s", "e", "r",
                    "v", "a", "b", "i", "l", "i", "t", "y">>],
       [key |-> <<"e", "p", "i", "c", "-", "5">>,
        label |-> <<"e", "p", "i", "c", "-", "5", "-", "r", "u", "n", "n", "e",
                    "r", "s">>],
       [key |-> <<"e", "p", "i", "c", "-", "6">>,
        label |-> <<"e", "p", "i", "c", "-", "6", "-", "s", "e", "c", "u", "r",
                    "i", "t", "y">>] >>

\* \d
is_digit(c) == \E d \in 1..10 : Digits[d] = c

\* \w
is_word(c) ==
    \/ is_digit(c)
    \/ c = "_"
    \/ \E k \in 1..26 : UpperAlpha[k] = c \/ LowerAlpha[k] = c

RECURSIVE digit_run(_, _)
\* the length of the run of digits of s that starts at index j
digit_run(s, j) ==
    IF j <= Len(s) /\ is_digit(s[j]) THEN 1 + digit_run(s, j + 1) ELSE 0

RECURSIVE word_run(_, _)
\* the length of the run of \w characters of s that starts at index j
word_run(s, j) ==
    IF j <= Len(s) /\ is_word(s[j]) THEN 1 + word_run(s, j + 1) ELSE 0

RECURSIVE int_of(_)
\* int(digits)
int_of(digits) ==
    IF digits = <<>> THEN 0
    ELSE 10 * int_of(SubSeq(digits, 1, Len(digits) - 1))
         + (CHOOSE d \in 0..9 : Digits[d + 1] = digits[Len(digits)])

\* the least member of a non-empty set of indices (re.search: leftmost match)
first_of(S) == CHOOSE x \in S : \A y \in S : x <= y

\* `re.match(r"(US-\d+)", text)`
match_story_id(text) ==
    IF literal_at(text, 1, <<"U", "S", "-">>) /\ digit_run(text, 4) >= 1
    THEN [ok |-> TRUE, id |-> SubSeq(text, 1, 3 + digit_run(text, 4))]
    ELSE [ok |-> FALSE, id |-> <<>>]

\* `re.search(r"^#\s+(.+?)(?:\s*\n|$)", content, re.MULTILINE)`, else filename
parse_title(content, filename) ==
    LET title_start(s, i) ==
            IF (i = 1 \/ s[i - 1] = NL) /\ s[i] = "#"
            THEN ws_text_match(s, i + 1, 1, FALSE)
            ELSE [ok |-> FALSE, from |-> 0, to |-> 0]
        hits == {i \in 1..Len(content) : title_start(content, i).ok}
    IN IF hits = {} THEN filename
       ELSE LET m == title_start(content, first_of(hits))
                \* the lazy group stops as soon as only \s up to a newline, or
                \* the end of the line, follows
                ends == {e \in m.from..m.to :
                            \/ e = m.to
                            \/ /\ m.to < Len(content)
                               /\ \A x \in (e + 1)..m.to : is_space(content[x])}
            IN SubSeq(content, m.from, first_of(ends))

\* `re.search(r"\*\*Status:\*\*\s*(.+?)(?:\n|$)", content)`, stripped
parse_status(content) ==
    LET at(i) == IF literal_at(content, i, T_status)
                 THEN ws_text_match(content, i + Len(T_status), 0, FALSE)
                 ELSE [ok |-> FALSE, from |-> 0, to |-> 0]
        hits == {i \in 1..Len(content) : at(i).ok}
    IN IF hits = {} THEN <<"D", "r", "a", "f", "t">>
       ELSE LET m == at(first_of(hits)) IN strip(SubSeq(content, m.from, m.to))

\* `re.search(r"\*\*(\w+)\*\*\s*-\s*(?:Critical|Important|Nice)", content)`
parse_priority(content) ==
    LET at(i) ==
            LET w == word_run(content, i + 2)
                dash == i + 2 + w + 2 + ws_run(content, i + 2 + w + 2)
                word == dash + 1 + ws_run(content, dash + 1)
            IN /\ literal_at(content, i, <<"*", "*">>)
               /\ w >= 1
               /\ literal_at(content, i + 2 + w, <<"*", "*">>)
               /\ literal_at(content, dash, <<"-">>)
               /\ \/ literal_at(content, word, <<"C", "r", "i", "t", "i", "c", "a", "l">>)
                  \/ literal_at(content, word,
                                <<"I", "m", "p", "o", "r", "t", "a", "n", "t">>)
                  \/ literal_at(content, word, <<"N", "i", "c", "e">>)
        hits == {i \in 1..Len(content) : at(i)}
    IN IF hits = {} THEN <<"s", "h", "o", "u", "l", "d">>
       ELSE LET i == first_of(hits)
            IN lower(SubSeq(content, i + 2, i + 1 + word_run(content, i + 2)))

\* `re.search(r"^\*\*Story Points:\*\*\s*(\d+)", content, re.MULTILINE)`
parse_story_points(content) ==
    LET digits_at(i) == i + Len(T_points) + ws_run(content, i + Len(T_points))
        at(i) == /\ (i = 1 \/ content[i - 1] = NL)
                 /\ literal_at(content, i, T_points)
                 /\ digit_run(content, digits_at(i)) >= 1
        hits == {i \in 1..Len(content) : at(i)}
    IN IF hits = {} THEN 0
       ELSE LET d == digits_at(first_of(hits))
            IN int_of(SubSeq(content, d, d + digit_run(content, d) - 1))

\* `re.search(rf"## {section_name}\s*\n\n(.*?)(?=\n##|\Z)", content, re.DOTALL)`:
\* group 1.  The greedy \s* gives characters back until two newlines follow.
section(content, section_name) ==
    LET mark == section_mark(section_name)
        gaps(i) == LET j == i + Len(mark) IN
                   {k \in 0..ws_run(content, j) :
                       literal_at(content, j + k, <<NL, NL>>)}
        at(i) == literal_at(content, i, mark) /\ gaps(i) # {}
        hits == {i \in 1..Len(content) : at(i)}
    IN IF hits = {} THEN [ok |-> FALSE, text |-> <<>>]
       ELSE LET i == first_of(hits)
                k == CHOOSE x \in gaps(i) : \A y \in gaps(i) : y <= x
                c == i + Len(mark) + k + 2
                stops == {e \in c..Len(content) :
                             literal_at(content, e, <<NL, "#", "#">>)}
                e == IF stops = {} THEN Len(content) + 1 ELSE first_of(stops)
            IN [ok |-> TRUE, text |-> SubSeq(content, c, e - 1)]

\* the text of a free-text section, stripped; empty when the section is absent
section_text(content, section_name) ==
    LET m == section(content, section_name) IN
    IF m.ok THEN strip(m.text) ELSE <<>>

RECURSIVE split_lines(_)
\* str.split("\n")
split_lines(s) ==
    LET q == next_nl(s, 0) IN
    IF q > Len(s) THEN <<s>>
    ELSE <<SubSeq(s, 1, q - 1)>> \o split_lines(SubSeq(s, q + 1, Len(s)))

\* one line of a checkbox section: the item it yields, if any
checkbox_item(raw_line) ==
    LET line == strip(raw_line)
        \* re.sub(r"^- \[.\]\s*", "", line)
        text == IF /\ literal_at(line, 1, <<"-", " ", "[">>)
                   /\ Len(line) >= 5 /\ line[4] # NL /\ line[5] = "]"
                THEN SubSeq(line, 6 + ws_run(line, 6), Len(line))
                ELSE line
    IN [is_item |-> startswith(line, <<"-", " ", "[">>),
        item |-> [text |-> text,
                  checked |-> \/ startswith(line, <<"-", " ", "[", "x", "]">>)
                              \/ startswith(line, <<"-", " ", "[", "X", "]">>)]]

RECURSIVE checkbox_items(_)
checkbox_items(lines) ==
    IF lines = <<>> THEN <<>>
    ELSE (IF checkbox_item(Head(lines)).is_item
          THEN <<checkbox_item(Head(lines)).item>> ELSE <<>>)
         \o checkbox_items(Tail(lines))

parse_checkbox_section(content, section_name) ==
    LET m == section(content, section_name) IN
    IF m.ok THEN checkbox_items(split_lines(m.text)) ELSE <<>>

RECURSIVE issue_refs(_, _)
\* `re.finditer(r"#(\d+)", deps_content)` from index pos on, as integers
issue_refs(s, pos) ==
    IF pos > Len(s) THEN <<>>
    ELSE IF s[pos] = "#" /\ digit_run(s, pos + 1) >= 1
    THEN LET d == digit_run(s, pos + 1) IN
         <<int_of(SubSeq(s, pos + 1, pos + d))>> \o issue_refs(s, pos + d + 1)
    ELSE issue_refs(s, pos + 1)

parse_dependencies(content) ==
    LET m == section(content, N_dependencies) IN
    IF m.ok THEN issue_refs(m.text, 1) ELSE <<>>

RECURSIVE epic_label_of(_, _)
\* the loop over EPIC_LABELS.items(): the first key found in the folder name
epic_label_of(epic, k) ==
    IF k > Len(EPIC_LABELS) THEN <<>>
    ELSE IF str_in(EPIC_LABELS[k].key, epic) THEN EPIC_LABELS[k].label
    ELSE epic_label_of(epic, k + 1)

\* parse_user_story on a file that could be read: file.stem is the name
\* without ".md", file.epic the parent folder's name
parse_user_story(file, file_path) ==
    LET m == match_story_id(file.stem) IN
    IF ~m.ok THEN [ok |-> FALSE, story |-> <<>>]
    ELSE [ok |-> TRUE,
          story |->
            [id |-> m.id,
             title |-> parse_title(file.content, file.stem),
             status |-> parse_status(file.content),
             priority |-> parse_priority(file.content),
             story_points |-> parse_story_points(file.content),
             epic |-> file.epic,
             epic_label |-> epic_label_of(file.epic, 1),
             user_story |-> section_text(file.content, N_user_story),
             acceptance_criteria |->
                 parse_checkbox_section(file.content, N_acceptance_criteria),
             tasks |-> parse_checkbox_section(file.content, N_tasks),
             dependencies |-> parse_dependencies(file.content),
             notes |-> section_text(file.content, N_notes),
             implementation_details |->
                 section_text(file.content, N_implementation_details),
             file_path |-> file_path]]

(***************************************************************************)
(* build_issue_body                                                        *)
(***************************************************************************)
\* f"- {checkbox} {item['text']}"
checkbox_line(item) ==
    <<"-", " ">> \o (IF item.checked THEN <<"[", "x", "]">> ELSE <<"[", " ", "]">>)
        \o <<" ">> \o item.text

\* the body_parts appended for one checkbox section (nothing when it is empty)
checkbox_parts(header, items) ==
    IF items = <<>> THEN <<>>
    ELSE <<header>> \o [i \in 1..Len(items) |-> checkbox_line(items[i])] \o << <<>> >>

\* the body_parts appended for one free-text section (nothing when it is empty)
text_parts(header, text) ==
    IF text = <<>> THEN <<>> ELSE <<header, text, <<>> >>

build_issue_body(story) ==
    LET body_parts ==
            text_parts(H_user_story, story.user_story)
         \o checkbox_parts(H_acceptance_criteria, story.acceptance_criteria)
         \o checkbox_parts(H_tasks, story.tasks)
         \o text_parts(H_implementation_details, story.implementation_details)
         \o (IF story.dependencies = <<>> THEN <<>>
             ELSE <<H_dependencies>>
                  \o [i \in 1..Len(story.dependencies) |->
                         <<"-", " ", "#">> \o str_int(story.dependencies[i])]
                  \o << <<>> >>)
         \o text_parts(H_notes, story.notes)
         \o << T_story_points \o str_int(story.story_points) >>
    IN join(<<NL>>, body_parts)

(***************************************************************************)
(* Labels of an issue (create_issue, update_issue)                         *)
(***************************************************************************)
L_user_story == <<"u", "s", "e", "r", "-", "s", "t", "o", "r", "y">>
L_done == <<"d", "o", "n", "e">>
L_priority_ == <<"p", "r", "i", "o", "r", "i", "t", "y", "-">>

\* `story.status.lower() == "done"`
status_is_done(story) == lower(story.status) = L_done

\* A plausible slip: the status is compared without folding its case.
desired_labels_case_sensitive(story) ==
    LET labels == {story.epic_label, L_priority_ \o story.priority, L_user_story}
                  \cup (IF story.status = L_done THEN {L_done} ELSE {})
    IN {label \in labels : label # <<>>}

\* update_issue's desired_labels; create_issue's labels hold the same names
desired_labels(story) ==
    LET labels == {story.epic_label, L_priority_ \o story.priority, L_user_story}
                  \cup (IF status_is_done(story) THEN {L_done} ELSE {})
    IN {label \in labels : label # <<>>}

\* `{label["name"] for label in existing_labels}`
existing_label_names(existing_labels) ==
    {existing_labels[i] : i \in 1..Len(existing_labels)}

labels_to_add(story, existing_labels) ==
    desired_labels(story) \ existing_label_names(existing_labels)

labels_to_remove(story, existing_labels) ==
    IF ~status_is_done(story)
    THEN {L_done} \cap existing_label_names(existing_labels)
    ELSE {}

(***************************************************************************)
(* update_local_doc: the new content of the file                           *)
(***************************************************************************)
\* the character class between the brackets: CHECKBOX_PATTERN `.`,
\* CHECKBOX_CHECKED_PATTERN `[xX]`, CHECKBOX_UNCHECKED_PATTERN ` `
mark_ok(kind, c) ==
    CASE kind = "any" -> c # NL
      [] kind = "checked" -> c \in {"x", "X"}
      [] kind = "unchecked" -> c = " "

\* `- \[<mark>\]\s+(.+?)` and its end, tried at index i of s: the group is
\* s[from..to]
checkbox_match(kind, s, i) ==
    IF /\ literal_at(s, i, <<"-", " ", "[">>)
       /\ i + 4 <= Len(s)
       /\ mark_ok(kind, s[i + 3])
       /\ s[i + 4] = "]"
    THEN ws_text_match(s, i + 5, 1, FALSE)
    ELSE [ok |-> FALSE, from |-> 0, to |-> 0]

RECURSIVE checkbox_texts(_, _, _)
\* `{match.group(1).strip() for match in PATTERN.finditer(issue_body)}` from
\* index pos on; the patterns end in `(?:\n|$)`, which takes the newline
checkbox_texts(kind, body, pos) ==
    LET hits == {i \in pos..Len(body) : checkbox_match(kind, body, i).ok} IN
    IF hits = {} THEN {}
    ELSE LET m == checkbox_match(kind, body, first_of(hits)) IN
         {strip(SubSeq(body, m.from, m.to))}
         \cup checkbox_texts(kind, body,
                   IF m.to + 1 <= Len(body) THEN m.to + 2 ELSE m.to + 1)

\* update_checkbox: the replacement of the match s[i..m.to]
update_checkbox(s, i, m, issue_checked, issue_unchecked) ==
    LET text == strip(SubSeq(s, m.from, m.to)) IN
    IF text \in issue_checked THEN <<"-", " ", "[", "x", "]", " ">> \o text
    ELSE IF text \in issue_unchecked THEN <<"-", " ", "[", " ", "]", " ">> \o text
    ELSE SubSeq(s, i, m.to)

RECURSIVE checkbox_sub(_, _, _, _)
\* `CHECKBOX_PATTERN.sub(update_checkbox, content)` from index pos on; the
\* pattern ends in a lookahead, so the newline stays in the text
checkbox_sub(s, pos, issue_checked, issue_unchecked) ==
    LET hits == {i \in pos..Len(s) : checkbox_match("any", s, i).ok} IN
    IF hits = {} THEN SubSeq(s, pos, Len(s))
    ELSE LET i == first_of(hits)
             m == checkbox_match("any", s, i)
         IN SubSeq(s, pos, i - 1)
            \o update_checkbox(s, i, m, issue_checked, issue_unchecked)
            \o checkbox_sub(s, m.to + 1, issue_checked, issue_unchecked)

RECURSIVE status_sub(_, _)
\* `re.sub(r"\*\*Status:\*\*\s*.+?(?=\n|$)", "**Status:** Done", content)`
status_sub(s, pos) ==
    LET match(i) == IF literal_at(s, i, T_status)
                    THEN ws_text_match(s, i + Len(T_status), 0, FALSE)
                    ELSE [ok |-> FALSE, from |-> 0, to |-> 0]
        hits == {i \in pos..Len(s) : match(i).ok}
    IN IF hits = {} THEN SubSeq(s, pos, Len(s))
       ELSE LET i == first_of(hits)
            IN SubSeq(s, pos, i - 1) \o T_status_done \o status_sub(s, match(i).to + 1)

\* the match of `(^#\s+.+?\n)` (re.MULTILINE) tried at index i
title_match(s, i) ==
    IF /\ i <= Len(s)
       /\ (i = 1 \/ s[i - 1] = NL)
       /\ s[i] = "#"
    THEN ws_text_match(s, i + 1, 1, TRUE)
    ELSE [ok |-> FALSE, from |-> 0, to |-> 0]

\* `re.sub(r"(^#\s+.+?\n)", r"\1\n**Status:** Done\n", content, count=1, ...)`
status_insert(s) ==
    LET hits == {i \in 1..Len(s) : title_match(s, i).ok} IN
    IF hits = {} THEN s
    ELSE LET i == CHOOSE x \in hits : \A y \in hits : x <= y
             m == title_match(s, i)
         IN SubSeq(s, 1, m.to + 1) \o <<NL>> \o T_status_done \o <<NL>>
            \o SubSeq(s, m.to + 2, Len(s))

\* lines 617-633: the status line, from the issue's labels
update_status(content, issue_data) ==
    LET issue_labels == {issue_data.labels[i] : i \in 1..Len(issue_data.labels)}
        is_done == L_done \in issue_labels
    IN IF is_done /\ ~str_in(T_status_done, content)
       THEN IF str_in(T_status, content) THEN status_sub(content, 1)
            ELSE status_insert(content)
       ELSE content

\* lines 635-661: the checkboxes, from the issue's body
update_checkboxes(content, issue_data) ==
    LET issue_body == issue_data.body
        issue_checked == checkbox_texts("checked", issue_body, 1)
        issue_unchecked == checkbox_texts("unchecked", issue_body, 1)
    IN checkbox_sub(content, 1, issue_checked, issue_unchecked)

\* the content update_local_doc computes from the file's content
update_local_doc_content(content, issue_data) ==
    update_checkboxes(update_status(content, issue_data), issue_data)

(***************************************************************************)
(* The gh commands built by the gateway functions                          *)
(***************************************************************************)
NoCmd ==
    [kind |-> "none", number |-> 0, title |-> <<>>, body |-> <<>>,
     add_label |-> {}, remove_label |-> {}]

\* update_issue: `cmd`; an empty label set stands for the option left out
update_issue_cmd(issue_number, story, existing_labels) ==
    [kind |-> "edit", number |-> issue_number, title |-> <<>>,
     body |-> build_issue_body(story),
     add_label |-> labels_to_add(story, existing_labels),
     remove_label |-> labels_to_remove(story, existing_labels)]

(***************************************************************************)
(* run_gh_command: one pass of the retry loop                              *)
(***************************************************************************)
E_timed_out ==
    <<"C", "o", "m", "m", "a", "n", "d", " ", "t", "i", "m", "e", "d", " ",
      "o", "u", "t">>
E_not_found ==
    <<"g", "h", " ", "c", "o", "m", "m", "a", "n", "d", " ", "n", "o", "t", " ",
      "f", "o", "u", "n", "d">>

\* the standard output of a command: its text and, for `--json`, what
\* json.loads makes of it
NoDoc == [valid |-> FALSE, is_list |-> FALSE, items |-> <<>>]
EmptyOut == [text |-> <<>>, doc |-> NoDoc]

\* A plausible slip: the delay grows linearly with the attempt index.
retry_delay_linear(attempt) == RETRY_BASE_DELAY * attempt

\* `delay = RETRY_BASE_DELAY ** attempt`
retry_delay(attempt) == RETRY_BASE_DELAY ^ attempt

\* A plausible slip: every nonzero exit is retried.
should_stop_never(stderr) == FALSE

\* `if not is_retryable_error(result.stderr)`
should_stop(stderr) == ~is_retryable_error(stderr)

\* The body of `for attempt in range(retries)` for one attempt whose
\* subprocess.run ended as `result` (kind "exit", "timeout" or "notfound"):
\* whether the function returns, what it returns, the sleep it makes
\* otherwise, and last_error.
run_gh_command_iter(attempt, retries, result, last_error) ==
    LET return(rc, out, err) ==
            [returned |-> TRUE, ret |-> [rc |-> rc, stdout |-> out, stderr |-> err],
             slept |-> <<>>, last_error |-> last_error]
        retry(err) ==
            [returned |-> FALSE, ret |-> [rc |-> 1, stdout |-> EmptyOut, stderr |-> err],
             slept |-> <<retry_delay(attempt)>>, last_error |-> err]
    IN CASE result.kind = "notfound" -> return(1, EmptyOut, E_not_found)
         [] result.kind = "timeout" ->
              IF attempt = retries - 1
              THEN [return(1, EmptyOut, E_timed_out) EXCEPT !.last_error = E_timed_out]
              ELSE retry(E_timed_out)
         [] result.kind = "exit" ->
              IF result.rc = 0 THEN return(result.rc, result.stdout, result.stderr)
              ELSE IF should_stop(result.stderr)
              THEN return(result.rc, result.stdout, result.stderr)
              ELSE IF attempt = retries - 1
              THEN return(result.rc, result.stdout, result.stderr)
              ELSE retry(result.stderr)

(***************************************************************************)
(* The gateway: get_existing_issues, create_issue, update_issue            *)
(***************************************************************************)
MAX_ISSUES_FETCH == 200

\* SAFE_TITLE_PATTERN `[^\w\s\-:().,#/]`: the characters sanitize_text keeps
is_safe(c) == is_word(c) \/ is_space(c) \/ c \in {"-", ":", "(", ")", ".", ",", "#", "/"}

RECURSIVE sanitize_text(_)
sanitize_text(text) ==
    IF text = <<>> THEN <<>>
    ELSE (IF is_safe(Head(text)) THEN <<Head(text)>> ELSE <<>>)
         \o sanitize_text(Tail(text))

RECURSIVE set_to_seq(_)
\* the members of a finite set in some order (list(a_set), ",".join(a_set))
set_to_seq(S) ==
    IF S = {} THEN <<>>
    ELSE LET x == CHOOSE y \in S : TRUE IN <<x>> \o set_to_seq(S \ {x})

ListCmd ==
    [kind |-> "list", number |-> 0, title |-> <<>>, body |-> <<>>,
     add_label |-> {}, remove_label |-> {}]

\* create_issue: the command; `labels` holds the desired names, empty ones
\* filtered out
create_issue_cmd(story) ==
    [kind |-> "create", number |-> 0, title |-> sanitize_text(story.title),
     body |-> build_issue_body(story),
     add_label |-> desired_labels(story), remove_label |-> {}]

\* `re.search(r"/issues/(\d+)", stdout)`
search_issue_number(text) ==
    LET lit == <<"/", "i", "s", "s", "u", "e", "s", "/">>
        hits == {i \in 1..Len(text) :
                    literal_at(text, i, lit) /\ digit_run(text, i + Len(lit)) >= 1}
    IN IF hits = {} THEN [ok |-> FALSE, number |-> 0]
       ELSE LET d == first_of(hits) + Len(lit)
            IN [ok |-> TRUE,
                number |-> int_of(SubSeq(text, d, d + digit_run(text, d) - 1))]

\* A plausible slip: a create whose output holds no issue number counts as done.
create_issue_result_lenient(ret) ==
    IF ret.rc # 0 THEN [ok |-> FALSE, issue_number |-> 0]
    ELSE [ok |-> TRUE, issue_number |-> search_issue_number(ret.stdout.text).number]

\* create_issue after run_gh_command returned: (success, issue_number), the
\* number 0 standing for None
create_issue_result(ret) ==
    IF ret.rc # 0 THEN [ok |-> FALSE, issue_number |-> 0]
    ELSE LET m == search_issue_number(ret.stdout.text) IN
         IF m.ok THEN [ok |-> TRUE, issue_number |-> m.number]
         ELSE [ok |-> FALSE, issue_number |-> 0]

\* update_issue after run_gh_command returned
update_issue_result(ret) == ret.rc = 0

validate_issue_structure(issue) ==
    {"number", "title", "labels"} \subseteq DOMAIN issue

RECURSIVE issue_map_of(_, _)
\* the loop that fills issue_map: a later issue of the list replaces an
\* earlier one with the same story id
issue_map_of(issues, issue_map) ==
    IF issues = <<>> THEN issue_map
    ELSE LET issue == Head(issues)
             m == IF validate_issue_structure(issue)
                  THEN match_story_id(issue.title)
                  ELSE [ok |-> FALSE, id |-> <<>>]
         IN issue_map_of(Tail(issues),
               IF m.ok
               THEN [k \in DOMAIN issue_map \cup {m.id} |->
                        IF k = m.id THEN issue ELSE issue_map[k]]
               ELSE issue_map)

\* get_existing_issues after run_gh_command returned
get_existing_issues_result(ret) ==
    IF ret.rc # 0 THEN <<>>
    ELSE IF ~ret.stdout.doc.valid THEN <<>>
    ELSE IF ~ret.stdout.doc.is_list THEN <<>>
    ELSE issue_map_of(ret.stdout.doc.items, <<>>)

(***************************************************************************)
(* State                                                                   *)
(***************************************************************************)
VARIABLES
    cl_stderr,      \* is_retryable_error: the argument
    cl_pc,          \* is_retryable_error: "call" before it ran, "returned" after
    cl_result,      \* is_retryable_error: the value returned
    lb_story,       \* update_issue: the story argument
    lb_existing,    \* update_issue: existing_labels (label names, in list order)
    lb_dry_run,     \* update_issue: dry_run
    lb_pc,          \* update_issue: "call", then "sent" (cmd handed to
                    \* run_gh_command) or "returned" (dry run)
    lb_cmd,         \* update_issue: cmd
    ld_content,     \* update_local_doc: original_content
    ld_issue,       \* update_local_doc: issue_data (labels, body)
    ld_pc,          \* update_local_doc: "call", then "computed"
    ld_status_out,  \* update_local_doc: content after the status step
    ld_out,         \* update_local_doc: content after the checkbox step
    dry_run,        \* args.dry_run
    direction,      \* args.direction
    gh_installed,   \* whether the gh executable is on the PATH
    files,          \* the story files under docs_dir, sorted by path
    files0,         \* the files as they were when the run started
    remote,         \* the tracker's issues, by number
    remote0,        \* the issues as they were when the run started
    pc,             \* position in main / sync_stories
    parsed,         \* sync_stories got as far as parsing the story files
    stories,        \* sync_stories: stories
    existing_issues,\* sync_stories: existing_issues (story id -> issue)
    story_i,        \* index of the story the current loop is at
    success,        \* sync_stories: success
    exit_code,      \* main's return value, -1 while it runs
    ops,            \* the update_issue / create_issue calls made so far
    patch_errors,   \* story indices whose update_local_doc hit an error
    executed,       \* kinds of gh commands that subprocess.run started
    gh_pc,          \* run_gh_command: "idle", "running", "returned"
    gh_cmd,         \* run_gh_command: args
    gh_attempt,     \* run_gh_command: attempt
    gh_last_error,  \* run_gh_command: last_error
    gh_ret,         \* run_gh_command: the value returned
    gh_results,     \* how each subprocess.run of this call ended
    gh_sleeps       \* the time.sleep delays of this call

classifyVars == <<cl_stderr, cl_pc, cl_result>>
labelVars == <<lb_story, lb_existing, lb_dry_run, lb_pc, lb_cmd>>
localDocVars == <<ld_content, ld_issue, ld_pc, ld_status_out, ld_out>>
envVars == <<dry_run, direction, gh_installed, files0, remote0>>
syncVars == <<pc, parsed, stories, existing_issues, story_i, success, exit_code,
              ops, patch_errors>>
ghVars == <<gh_pc, gh_cmd, gh_attempt, gh_last_error, gh_ret, gh_results, gh_sleeps>>
runVars == <<envVars, files, remote, syncVars, executed, ghVars>>
vars == <<classifyVars, labelVars, localDocVars, runVars>>

EmptyStory ==
    [id |-> <<>>, title |-> <<>>, status |-> <<"D", "r", "a", "f", "t">>,
     priority |-> <<"s", "h", "o", "u", "l", "d">>, story_points |-> 0,
     epic |-> <<>>, epic_label |-> <<>>, user_story |-> <<>>,
     acceptance_criteria |-> <<>>, tasks |-> <<>>, dependencies |-> <<>>,
     notes |-> <<>>, implementation_details |-> <<>>, file_path |-> 0]

ClassifyIdle == cl_stderr = <<>> /\ cl_pc = "idle" /\ cl_result = FALSE

LabelIdle ==
    /\ lb_story = EmptyStory /\ lb_existing = <<>> /\ lb_dry_run = FALSE
    /\ lb_pc = "idle" /\ lb_cmd = NoCmd

LocalDocIdle ==
    /\ ld_content = <<>> /\ ld_issue = [labels |-> <<>>, body |-> <<>>]
    /\ ld_pc = "idle" /\ ld_status_out = <<>> /\ ld_out = <<>>

NoRet == [rc |-> -1, stdout |-> EmptyOut, stderr |-> <<>>]

GhIdle ==
    /\ gh_pc = "idle" /\ gh_cmd = NoCmd /\ gh_attempt = 0 /\ gh_last_error = <<>>
    /\ gh_ret = NoRet /\ gh_results = <<>> /\ gh_sleeps = <<>>

SyncIdle ==
    /\ parsed = FALSE /\ stories = <<>> /\ existing_issues = <<>> /\ story_i = 0
    /\ success = TRUE /\ exit_code = -1 /\ ops = <<>> /\ patch_errors = {}

RunIdle ==
    /\ dry_run = FALSE /\ direction = "both" /\ gh_installed = TRUE
    /\ files = <<>> /\ files0 = <<>> /\ remote = <<>> /\ remote0 = <<>>
    /\ pc = "idle" /\ SyncIdle /\ executed = {} /\ GhIdle

(***************************************************************************)
(* Specification of is_retryable_error on bounded stderr texts             *)
(***************************************************************************)
MaxFrags == 3

\* Pieces of error texts; concatenations of them put patterns together across
\* piece boundaries ("4" + "29"), in either case, and next to each other.
StderrFragments ==
    { <<"r", "a", "t", "e">>, <<" ">>, <<"l", "i", "m", "i", "t">>,
      <<"R", "a", "t", "e", " ", "L", "i", "m", "i", "t">>,
      <<"4">>, <<"2", "9">>, <<"0", "4">>,
      <<"I", "n", "v", "a", "l", "i", "d">>,
      <<"n", "o", "t">>, <<"f", "o", "u", "n", "d">>,
      <<"H", "T", "T", "P">>, <<"5", "0", "2">> }

StderrTexts ==
    UNION { { concat(fs) : fs \in [1..n -> StderrFragments] } : n \in 0..MaxFrags }

ClassifyInit ==
    /\ cl_stderr \in StderrTexts
    /\ cl_pc = "call"
    /\ cl_result = FALSE
    /\ LabelIdle
    /\ LocalDocIdle
    /\ RunIdle

Classify ==
    /\ cl_pc = "call"
    /\ cl_pc' = "returned"
    /\ cl_result' = is_retryable_error(cl_stderr)
    /\ UNCHANGED <<cl_stderr, labelVars, localDocVars, runVars>>

ClassifyNext == Classify

SpecClassify == ClassifyInit /\ [][ClassifyNext]_vars

\* The claim's own reading of "contains, case-insensitively": some pattern of
\* the list occurs in the text once both are folded to lower case.
C2_ContainsAnyCI(text, patterns) ==
    \E k \in 1..Len(patterns) : str_in(lower(patterns[k]), lower(text))

\* C2: is_retryable_error is TRUE when the text contains a rate-limit
\* pattern (whatever else it contains); otherwise FALSE when it contains a
\* non-retryable pattern; otherwise TRUE.  Matching ignores case.
C2_Classification ==
    cl_pc = "returned" =>
        cl_result = IF C2_ContainsAnyCI(cl_stderr, RATE_LIMIT_PATTERNS) THEN TRUE
                    ELSE IF C2_ContainsAnyCI(cl_stderr, NON_RETRYABLE_ERRORS) THEN FALSE
                    ELSE TRUE

\* A classified text holding both "rate limit" (in mixed case) and "invalid".
C2_Witness ==
    /\ cl_pc = "returned"
    /\ cl_result = TRUE
    /\ str_in(<<"R", "a", "t", "e", " ", "L", "i", "m", "i", "t">>, cl_stderr)
    /\ str_in(<<"I", "n", "v", "a", "l", "i", "d">>, cl_stderr)
(***************************************************************************)
(* Specification of update_issue's label computation on bounded inputs     *)
(***************************************************************************)
MaxExistingLabels == 3

LabelStatuses ==
    { <<"D", "o", "n", "e">>, <<"d", "o", "n", "e">>, <<"D", "O", "N", "E">>,
      <<"D", "r", "a", "f", "t">>,
      <<"I", "n", " ", "P", "r", "o", "g", "r", "e", "s", "s">>,
      <<"N", "o", "t", " ", "D", "o", "n", "e">> }

LabelPriorities == { <<"s", "h", "o", "u", "l", "d">>, <<"m", "u", "s", "t">> }

LabelEpicLabels ==
    { <<>>,
      <<"e", "p", "i", "c", "-", "1", "-", "i", "n", "f", "r", "a", "s", "t",
        "r", "u", "c", "t", "u", "r", "e">> }

\* Names the issue may carry: the tool's own and foreign ones.
LabelUniverse ==
    { L_done, L_user_story, <<"D", "o", "n", "e">>, <<"b", "u", "g">>,
      <<"p", "r", "i", "o", "r", "i", "t", "y", "-", "s", "h", "o", "u", "l", "d">>,
      <<"p", "r", "i", "o", "r", "i", "t", "y", "-", "m", "u", "s", "t">>,
      <<"e", "p", "i", "c", "-", "1", "-", "i", "n", "f", "r", "a", "s", "t",
        "r", "u", "c", "t", "u", "r", "e">> }

LabelInit ==
    /\ lb_story \in { [EmptyStory EXCEPT !.status = st, !.priority = pr,
                                         !.epic_label = ep] :
                        st \in LabelStatuses, pr \in LabelPriorities,
                        ep \in LabelEpicLabels }
    /\ lb_existing \in UNION { [1..n -> LabelUniverse] : n \in 0..MaxExistingLabels }
    /\ lb_dry_run \in BOOLEAN
    /\ lb_pc = "call"
    /\ lb_cmd = NoCmd
    /\ ClassifyIdle
    /\ LocalDocIdle
    /\ RunIdle

\* update_issue up to the point where it hands cmd to run_gh_command
LabelUpdateIssue ==
    /\ lb_pc = "call"
    /\ IF lb_dry_run
       THEN lb_pc' = "returned" /\ UNCHANGED lb_cmd
       ELSE /\ lb_pc' = "sent"
            /\ lb_cmd' = update_issue_cmd(1, lb_story, lb_existing)
    /\ UNCHANGED <<lb_story, lb_existing, lb_dry_run, classifyVars, localDocVars, runVars>>

LabelNext == LabelUpdateIssue

SpecLabels == LabelInit /\ [][LabelNext]_vars

\* The claim's desired set, written out from the story's fields.
C9_Desired ==
    ({lb_story.epic_label} \ {<<>>})
    \cup {L_priority_ \o lb_story.priority, L_user_story}
    \cup (IF lower(lb_story.status) = L_done THEN {L_done} ELSE {})

C9_OnIssue == {lb_existing[i] : i \in 1..Len(lb_existing)}

\* C9: the edit command adds exactly the desired labels the issue lacks,
\* removes "done" exactly when the status is not done (ignoring case) and the
\* issue carries "done", removes nothing else, and adds and removes no
\* common label.
C9_LabelDiff ==
    lb_pc = "sent" =>
        /\ lb_cmd.add_label = C9_Desired \ C9_OnIssue
        /\ lb_cmd.remove_label =
              (IF lower(lb_story.status) # L_done /\ L_done \in C9_OnIssue
               THEN {L_done} ELSE {})
        /\ lb_cmd.remove_label \subseteq {L_done}
        /\ lb_cmd.add_label \cap lb_cmd.remove_label = {}

\* An edit that removes "done": the status is not done, the issue carries it.
C9_Witness ==
    /\ lb_pc = "sent"
    /\ lb_cmd.remove_label = {L_done}
    /\ lb_cmd.add_label # {}
(***************************************************************************)
(* Specification of update_local_doc's content computation on bounded      *)
(* files and issues                                                        *)
(***************************************************************************)
MaxLocalLines == 3
MaxBodyLines == 2

\* Lines of a story file: a title, a status line, checkbox lines (one of them
\* with no text yet), plain text.
LocalLines ==
    { <<"#", " ", "T">>,
      T_status \o <<" ", "D", "r", "a", "f", "t">>,
      <<"-", " ", "[", " ", "]", " ", "a">>,
      <<"-", " ", "[", "x", "]", " ", "a">>,
      <<"-", " ", "[", " ", "]", " ", "b">>,
      <<"-", " ", "[", " ", "]">>,
      <<"n">> }

\* Lines of an issue body.
BodyLines ==
    { <<"-", " ", "[", "x", "]", " ", "a">>,
      <<"-", " ", "[", " ", "]", " ", "a">>,
      <<"-", " ", "[", "X", "]", " ", "b">>,
      <<"-", " ", "[", " ", "]", " ", "b">>,
      H_tasks }

\* a text file of the given lines, each ended by a newline
file_of(lines) == concat([i \in 1..Len(lines) |-> lines[i] \o <<NL>>])

LocalDocInit ==
    /\ ld_content \in
          { file_of(ls) :
              ls \in UNION { [1..n -> LocalLines] : n \in 0..MaxLocalLines } }
    /\ ld_issue \in
          { [labels |-> lbs, body |-> join(<<NL>>, bs)] :
              lbs \in { <<>>, <<L_user_story, L_done>> },
              bs \in UNION { [1..n -> BodyLines] : n \in 0..MaxBodyLines } }
    /\ ld_pc = "call"
    /\ ld_status_out = <<>>
    /\ ld_out = <<>>
    /\ ClassifyIdle
    /\ LabelIdle
    /\ RunIdle

\* update_local_doc from the content read to the content it would write
LocalDocUpdate ==
    /\ ld_pc = "call"
    /\ ld_pc' = "computed"
    /\ ld_status_out' = update_status(ld_content, ld_issue)
    /\ ld_out' = update_local_doc_content(ld_content, ld_issue)
    /\ UNCHANGED <<ld_content, ld_issue, classifyVars, labelVars, runVars>>

LocalDocNext == LocalDocUpdate

SpecLocalDoc == LocalDocInit /\ [][LocalDocNext]_vars

\* A checkbox line, read line by line as the story parser reads it: the
\* trimmed line is "- [c]" followed by the item's text.
C10_IsCheckbox(line) ==
    LET l == strip(line) IN
    /\ Len(l) >= 5
    /\ SubSeq(l, 1, 3) = <<"-", " ", "[">>
    /\ l[5] = "]"

C10_Text(line) == LET l == strip(line) IN strip(SubSeq(l, 6, Len(l)))

C10_Checked(line) == strip(line)[4] \in {"x", "X"}

C10_Items(text, checked) ==
    LET ls == split_lines(text) IN
    { C10_Text(ls[i]) : i \in { j \in 1..Len(ls) :
          C10_IsCheckbox(ls[j]) /\ C10_Checked(ls[j]) = checked } }

\* C10: every checkbox line of the file (with a text) is decided by its
\* trimmed text alone: it ends checked when the text is a checked item of the
\* issue body, unchecked when it is an unchecked item (and not a checked one),
\* and is left exactly as it was when it is neither.
C10_DecidedByText ==
    ld_pc = "computed" =>
        LET before == split_lines(ld_status_out)
            after == split_lines(ld_out)
            issue_checked == C10_Items(ld_issue.body, TRUE)
            issue_unchecked == C10_Items(ld_issue.body, FALSE)
        IN /\ Len(after) = Len(before)
           /\ \A i \in 1..Len(before) :
                 (C10_IsCheckbox(before[i]) /\ C10_Text(before[i]) # <<>>) =>
                    IF C10_Text(before[i]) \in issue_checked
                    THEN /\ C10_IsCheckbox(after[i])
                         /\ C10_Checked(after[i])
                         /\ C10_Text(after[i]) = C10_Text(before[i])
                    ELSE IF C10_Text(before[i]) \in issue_unchecked
                    THEN /\ C10_IsCheckbox(after[i])
                         /\ ~C10_Checked(after[i])
                         /\ C10_Text(after[i]) = C10_Text(before[i])
                    ELSE after[i] = before[i]
(***************************************************************************)
(* The issue tracker behind the gh CLI                                     *)
(***************************************************************************)
E_404 ==
    <<"H", "T", "T", "P", " ", "4", "0", "4", ":", " ", "N", "o", "t", " ",
      "F", "o", "u", "n", "d">>
E_502 ==
    <<"H", "T", "T", "P", " ", "5", "0", "2", ":", " ", "B", "a", "d", " ",
      "G", "a", "t", "e", "w", "a", "y">>
\* what gh prints after `issue create` and `issue edit`
issue_url(number) ==
    <<"h", "t", "t", "p", "s", ":", "/", "/", "g", "i", "t", "h", "u", "b", ".",
      "c", "o", "m", "/", "o", "/", "r", "/", "i", "s", "s", "u", "e", "s", "/">>
    \o str_int(number) \o <<NL>>

\* the issues after the tracker carried out the command
tracker_apply(issues, cmd) ==
    CASE cmd.kind = "create" ->
            Append(issues, [number |-> Len(issues) + 1, title |-> cmd.title,
                            labels |-> cmd.add_label, body |-> cmd.body])
      [] cmd.kind = "edit" ->
            [issues EXCEPT ![cmd.number] =
                [@ EXCEPT !.body = cmd.body,
                          !.labels = (@ \cup cmd.add_label) \ cmd.remove_label]]
      [] OTHER -> issues

RECURSIVE newest_first(_)
newest_first(issues) ==
    IF issues = <<>> THEN <<>>
    ELSE <<issues[Len(issues)]>> \o newest_first(SubSeq(issues, 1, Len(issues) - 1))

\* the `--label user-story` filter
RECURSIVE with_story_label(_)
with_story_label(issues) ==
    IF issues = <<>> THEN <<>>
    ELSE (IF L_user_story \in Head(issues).labels THEN <<Head(issues)>> ELSE <<>>)
         \o with_story_label(Tail(issues))

\* `gh issue list --label user-story --state all --limit N --json ...`
issue_list(issues) ==
    LET hits == with_story_label(newest_first(issues))
        page == SubSeq(hits, 1, IF Len(hits) < MAX_ISSUES_FETCH THEN Len(hits)
                                ELSE MAX_ISSUES_FETCH)
    IN [k \in 1..Len(page) |->
           [number |-> page[k].number, title |-> page[k].title,
            labels |-> set_to_seq(page[k].labels), body |-> page[k].body,
            state |-> "OPEN"]]

\* the standard output of a command that exited 0, the tracker holding `issues`
\* after it
gh_stdout(issues, cmd) ==
    CASE cmd.kind = "list" ->
            [text |-> <<>>,
             doc |-> [valid |-> TRUE, is_list |-> TRUE, items |-> issue_list(issues)]]
      [] cmd.kind = "create" -> [text |-> issue_url(Len(issues)), doc |-> NoDoc]
      [] cmd.kind = "edit" -> [text |-> issue_url(cmd.number), doc |-> NoDoc]

\* The ways one subprocess.run of `gh` can end.  `applied` tells whether the
\* tracker carried the command out: always on exit 0, never on a client
\* error, possibly when gh was killed at the timeout.
GhOutcomes(cmd) ==
    LET mutating == cmd.kind \in {"create", "edit"}
        lost == IF mutating THEN BOOLEAN ELSE {FALSE}
    IN    { [kind |-> "exit", rc |-> 0, how |-> h, stderr |-> <<>>, applied |-> TRUE] :
              h \in {"normal"} \cup (IF cmd.kind = "create" THEN {"no_number"} ELSE {})
                               \cup (IF cmd.kind = "list" THEN {"no_json"} ELSE {}) }
     \cup { [kind |-> "exit", rc |-> 1, how |-> "normal", stderr |-> e, applied |-> FALSE] :
              e \in {E_404, E_502} }
     \cup { [kind |-> "timeout", rc |-> 0, how |-> "normal", stderr |-> <<>>, applied |-> a] :
              a \in lost }

\* what subprocess.run hands to run_gh_command for an outcome
subprocess_result(out, issues, cmd) ==
    [kind |-> out.kind, rc |-> out.rc,
     stdout |-> IF out.kind = "exit" /\ out.rc = 0
                THEN (CASE out.how = "normal" -> gh_stdout(issues, cmd)
                        [] out.how = "no_number" -> [text |-> <<NL>>, doc |-> NoDoc]
                        [] out.how = "no_json" -> EmptyOut)
                ELSE EmptyOut,
     stderr |-> out.stderr]

(***************************************************************************)
(* run_gh_command                                                          *)
(***************************************************************************)
\* the call: `last_error = ""` and the loop entered at attempt 0
GhCall(cmd) ==
    /\ gh_pc' = "running"
    /\ gh_cmd' = cmd
    /\ gh_attempt' = 0
    /\ gh_last_error' = <<>>
    /\ gh_ret' = NoRet
    /\ gh_results' = <<>>
    /\ gh_sleeps' = <<>>

\* the caller took the returned value
GhDone ==
    /\ gh_pc' = "idle"
    /\ gh_cmd' = NoCmd
    /\ gh_attempt' = 0
    /\ gh_last_error' = <<>>
    /\ gh_ret' = NoRet
    /\ gh_results' = <<>>
    /\ gh_sleeps' = <<>>

\* one pass of the loop on a subprocess.run that ended as `result`, the
\* sleep before the next pass included
GhPass(result) ==
    LET r == run_gh_command_iter(gh_attempt, MAX_RETRIES, result, gh_last_error)
        \* `for attempt in range(retries)` ran out: line 225
        loop_ended == ~r.returned /\ gh_attempt + 1 >= MAX_RETRIES
    IN /\ gh_results' = Append(gh_results, result)
       /\ gh_sleeps' = gh_sleeps \o r.slept
       /\ gh_last_error' = r.last_error
       /\ gh_attempt' = IF r.returned \/ loop_ended THEN gh_attempt ELSE gh_attempt + 1
       /\ gh_pc' = IF r.returned \/ loop_ended THEN "returned" ELSE "running"
       /\ gh_ret' = IF r.returned THEN r.ret
                    ELSE IF loop_ended
                    THEN [rc |-> 1, stdout |-> EmptyOut, stderr |-> r.last_error]
                    ELSE gh_ret
       /\ UNCHANGED gh_cmd

GhFrame ==
    UNCHANGED <<classifyVars, labelVars, localDocVars, envVars, files, syncVars>>

\* subprocess.run raised FileNotFoundError
GhAttemptNotFound ==
    /\ gh_pc = "running"
    /\ ~gh_installed
    /\ GhPass([kind |-> "notfound", rc |-> 0, stdout |-> EmptyOut, stderr |-> <<>>])
    /\ UNCHANGED <<remote, executed>>
    /\ GhFrame

\* subprocess.run started gh, which exited or was killed at the timeout
GhAttemptRun ==
    /\ gh_pc = "running"
    /\ gh_installed
    /\ \E out \in GhOutcomes(gh_cmd) :
          LET issues == IF out.applied THEN tracker_apply(remote, gh_cmd) ELSE remote
          IN /\ remote' = issues
             /\ GhPass(subprocess_result(out, issues, gh_cmd))
    /\ executed' = executed \cup {gh_cmd.kind}
    /\ GhFrame

(***************************************************************************)
(* main and sync_stories                                                   *)
(***************************************************************************)
MaxFiles == 2
MaxIssues == 1

\* The story file of number n under docs_dir: a well-formed draft story with
\* an open task, a finished story with the task ticked, or a file whose name
\* the glob "US-*.md" finds but that is no story
story_file(n, variant) ==
    [stem |-> IF variant = "misnamed" THEN <<"U", "S", "-", "x">> \o str_int(n)
              ELSE <<"U", "S", "-">> \o str_int(n) \o <<"-", "s">>,
     epic |-> <<"e", "p", "i", "c", "-">> \o str_int(n) \o <<"-", "x">>,
     content |->
        <<"#", " ", "U", "S", "-">> \o str_int(n) \o <<" ", "T", NL, NL>>
        \o (IF variant = "done" THEN T_status_done
            ELSE T_status \o <<" ", "D", "r", "a", "f", "t">>)
        \o <<NL, NL>> \o section_mark(N_tasks) \o <<NL, NL>>
        \o (IF variant = "done" THEN <<"-", " ", "[", "x", "]", " ", "a">>
            ELSE <<"-", " ", "[", " ", "]", " ", "a">>)
        \o <<NL>>]

FileVariants == {"draft", "done", "misnamed"}
IssueVariants == {"draft", "done"}

\* the directories docs_dir may hold: sorted(story_files) of each
FileChoices ==
    UNION { {[n \in 1..k |-> story_file(n, v[n])] : v \in [1..k -> FileVariants]} :
            k \in 0..MaxFiles }

\* the issue an earlier run created for story n
issue_of(n, variant) ==
    LET cmd == create_issue_cmd(parse_user_story(story_file(n, variant), n).story)
    IN [number |-> n, title |-> cmd.title, labels |-> cmd.add_label, body |-> cmd.body]

IssueChoices ==
    UNION { {[n \in 1..k |-> issue_of(n, v[n])] : v \in [1..k -> IssueVariants]} :
            k \in 0..MaxIssues }

Init ==
    /\ ClassifyIdle /\ LabelIdle /\ LocalDocIdle
    /\ dry_run \in BOOLEAN
    /\ direction \in {"both", "to-github", "from-github"}
    /\ gh_installed \in BOOLEAN
    /\ files \in FileChoices
    /\ files0 = files
    /\ remote \in IssueChoices
    /\ remote0 = remote
    /\ pc = "main"
    /\ SyncIdle
    /\ executed = {}
    /\ GhIdle

RunFrame == UNCHANGED <<classifyVars, labelVars, localDocVars, envVars>>

\* main: validate_docs_dir raises ValueError, or sync_stories is called
Main_validate_docs_dir ==
    /\ pc = "main"
    /\ \E valid \in BOOLEAN :
          IF valid THEN /\ pc' = "get_repo_info"
                        /\ UNCHANGED exit_code
          ELSE /\ pc' = "exit"
               /\ exit_code' = 1
    /\ UNCHANGED <<parsed, stories, existing_issues, story_i, success, ops,
                   patch_errors, files, remote, executed, ghVars>>
    /\ RunFrame

\* sync_stories: get_repo_info returns, or raises ValueError (`return False`)
Sync_get_repo_info ==
    /\ pc = "get_repo_info"
    /\ \E how \in {"resolved", "unparsable", "timeout", "no_git"} :
          IF how = "resolved" THEN /\ pc' = "parse"
                                   /\ UNCHANGED exit_code
          ELSE /\ pc' = "exit"
               /\ exit_code' = 1
    /\ UNCHANGED <<parsed, stories, existing_issues, story_i, success, ops,
                   patch_errors, files, remote, executed, ghVars>>
    /\ RunFrame

RECURSIVE parse_all(_, _, _)
\* the loop over sorted(story_files) that fills `stories`; the files in
\* `unreadable` raise on read_text
parse_all(fs, k, unreadable) ==
    IF k > Len(fs) THEN <<>>
    ELSE LET r == IF k \in unreadable THEN [ok |-> FALSE, story |-> <<>>]
                  ELSE parse_user_story(fs[k], k)
         IN (IF r.ok THEN <<r.story>> ELSE <<>>) \o parse_all(fs, k + 1, unreadable)

\* A plausible slip: the run goes on with an empty story list.
no_stories_never(story_list) == FALSE

\* `if not stories`
no_stories(story_list) == story_list = <<>>

\* sync_stories: glob, parse, and the early return when nothing parsed
Sync_parse ==
    /\ pc = "parse"
    /\ \E unreadable \in SUBSET (1..Len(files)) :
          LET parsed_stories == parse_all(files, 1, unreadable)
          IN /\ stories' = parsed_stories
             /\ IF no_stories(parsed_stories)
                THEN /\ pc' = "exit"
                     /\ exit_code' = 0
                ELSE /\ pc' = "fetch"
                     /\ UNCHANGED exit_code
    /\ parsed' = TRUE
    /\ UNCHANGED <<existing_issues, story_i, success, ops, patch_errors, files,
                   remote, executed, ghVars>>
    /\ RunFrame

\* get_existing_issues: the call of run_gh_command
Sync_fetch_call ==
    /\ pc = "fetch"
    /\ pc' = "fetch_wait"
    /\ GhCall(ListCmd)
    /\ UNCHANGED <<parsed, stories, existing_issues, story_i, success, exit_code,
                   ops, patch_errors, files, remote, executed>>
    /\ RunFrame

outbound(dir) == dir \in {"both", "to-github"}
inbound(dir) == dir \in {"both", "from-github"}

\* get_existing_issues returns its map
Sync_fetch_return ==
    /\ pc = "fetch_wait"
    /\ gh_pc = "returned"
    /\ existing_issues' = get_existing_issues_result(gh_ret)
    /\ pc' = IF outbound(direction) THEN "outbound" ELSE "inbound"
    /\ story_i' = 1
    /\ GhDone
    /\ UNCHANGED <<parsed, stories, success, exit_code, ops, patch_errors, files,
                   remote, executed>>
    /\ RunFrame

\* A plausible slip: every story is created, indexed or not.
outbound_op_always_create(story, issue_index) == "create"

\* `if story.id in existing_issues`: update_issue, else create_issue
outbound_op(story, issue_index) ==
    IF story.id \in DOMAIN issue_index THEN "update" ELSE "create"

\* A plausible slip: the dry-run flag is not looked at.
dry_run_short_circuit_never(dry) == FALSE

\* `if dry_run:` of create_issue and update_issue, before any command is run
dry_run_short_circuit(dry) == dry

\* the outbound loop at one story: update_issue or create_issue up to its
\* dry-run return or its call of run_gh_command
Out_call ==
    /\ pc = "outbound"
    /\ story_i <= Len(stories)
    /\ LET story == stories[story_i]
           kind == outbound_op(story, existing_issues)
           \* a story created although indexed has no issue to name
           issue == IF story.id \in DOMAIN existing_issues
                    THEN existing_issues[story.id] ELSE [number |-> 0, labels |-> <<>>]
           cmd == IF kind = "update"
                  THEN update_issue_cmd(issue.number, story, issue.labels)
                  ELSE create_issue_cmd(story)
           op == [story |-> story_i, id |-> story.id, kind |-> kind,
                  number |-> cmd.number, state |-> "called", rc |-> -1,
                  stdout |-> <<>>, issue_number |-> 0]
       IN IF dry_run_short_circuit(dry_run)
          THEN /\ ops' = Append(ops, [op EXCEPT !.state = "ok"])
               /\ story_i' = story_i + 1
               /\ UNCHANGED <<pc, ghVars>>
          ELSE /\ ops' = Append(ops, op)
               /\ pc' = "outbound_wait"
               /\ GhCall(cmd)
               /\ UNCHANGED story_i
    /\ UNCHANGED <<parsed, stories, existing_issues, success, exit_code,
                   patch_errors, files, remote, executed>>
    /\ RunFrame

\* update_issue or create_issue after run_gh_command returned, and
\* `success = False` when it reports failure
Out_return ==
    /\ pc = "outbound_wait"
    /\ gh_pc = "returned"
    /\ LET op == ops[Len(ops)]
           res == IF op.kind = "create" THEN create_issue_result(gh_ret)
                  ELSE [ok |-> update_issue_result(gh_ret), issue_number |-> 0]
       IN /\ ops' = [ops EXCEPT ![Len(ops)] =
                        [op EXCEPT !.state = IF res.ok THEN "ok" ELSE "failed",
                                   !.rc = gh_ret.rc,
                                   !.stdout = gh_ret.stdout.text,
                                   !.issue_number = res.issue_number]]
          /\ success' = (success /\ res.ok)
    /\ story_i' = story_i + 1
    /\ pc' = "outbound"
    /\ GhDone
    /\ UNCHANGED <<parsed, stories, existing_issues, exit_code, patch_errors,
                   files, remote, executed>>
    /\ RunFrame

\* the outbound loop is through
Out_done ==
    /\ pc = "outbound"
    /\ story_i > Len(stories)
    /\ pc' = IF inbound(direction) THEN "inbound" ELSE "return"
    /\ story_i' = 1
    /\ UNCHANGED <<parsed, stories, existing_issues, success, exit_code, ops,
                   patch_errors, files, remote, executed, ghVars>>
    /\ RunFrame

\* the inbound loop at one story: update_local_doc on the indexed issue,
\* whose returned value sync_stories drops.  `io` is what the file system
\* does: the file is gone, read_text raises, write_text raises, or all works.
In_step ==
    /\ pc = "inbound"
    /\ story_i <= Len(stories)
    /\ LET story == stories[story_i] IN
       IF story.id \in DOMAIN existing_issues
       THEN \E io \in {"ok", "missing", "read_error", "write_error"} :
              LET issue == existing_issues[story.id]
                  original_content == files[story.file_path].content
                  content == update_local_doc_content(original_content,
                                 [labels |-> issue.labels, body |-> issue.body])
              IN CASE io = "missing" -> UNCHANGED <<files, patch_errors>>
                   [] io = "read_error" ->
                        /\ patch_errors' = patch_errors \cup {story_i}
                        /\ UNCHANGED files
                   [] io \in {"ok", "write_error"} ->
                        IF content = original_content \/ dry_run
                        THEN UNCHANGED <<files, patch_errors>>
                        ELSE IF io = "write_error"
                        THEN /\ patch_errors' = patch_errors \cup {story_i}
                             /\ UNCHANGED files
                        ELSE /\ files' = [files EXCEPT ![story.file_path].content = content]
                             /\ UNCHANGED patch_errors
       ELSE UNCHANGED <<files, patch_errors>>
    /\ story_i' = story_i + 1
    /\ UNCHANGED <<pc, parsed, stories, existing_issues, success, exit_code, ops,
                   remote, executed, ghVars>>
    /\ RunFrame

\* the inbound loop is through
In_done ==
    /\ pc = "inbound"
    /\ story_i > Len(stories)
    /\ pc' = "return"
    /\ UNCHANGED <<parsed, stories, existing_issues, story_i, success, exit_code,
                   ops, patch_errors, files, remote, executed, ghVars>>
    /\ RunFrame

\* sync_stories returns `success`; main: `return 0 if success else 1`
Main_return ==
    /\ pc = "return"
    /\ exit_code' = IF success THEN 0 ELSE 1
    /\ pc' = "exit"
    /\ UNCHANGED <<parsed, stories, existing_issues, story_i, success, ops,
                   patch_errors, files, remote, executed, ghVars>>
    /\ RunFrame

Next ==
    \/ Main_validate_docs_dir
    \/ Sync_get_repo_info
    \/ Sync_parse
    \/ Sync_fetch_call
    \/ Sync_fetch_return
    \/ Out_call
    \/ Out_return
    \/ Out_done
    \/ In_step
    \/ In_done
    \/ Main_return
    \/ GhAttemptNotFound
    \/ GhAttemptRun

Spec == Init /\ [][Next]_vars

(***************************************************************************)
(* Specification of one call of run_gh_command                             *)
(***************************************************************************)
\* the commands the script hands to run_gh_command, the tracker holding `issues`
RunGhCmds(issues) ==
    LET story == parse_user_story(story_file(1, "draft"), 1).story
    IN {ListCmd, create_issue_cmd(story)}
       \cup {update_issue_cmd(issues[n].number, story, set_to_seq(issues[n].labels)) :
                n \in DOMAIN issues}

RunGhInit ==
    /\ ClassifyIdle /\ LabelIdle /\ LocalDocIdle
    /\ dry_run = FALSE /\ direction = "both"
    /\ gh_installed \in BOOLEAN
    /\ files = <<>> /\ files0 = <<>>
    /\ remote \in IssueChoices
    /\ remote0 = remote
    /\ pc = "idle" /\ SyncIdle
    /\ executed = {}
    /\ \E cmd \in RunGhCmds(remote) :
          /\ gh_pc = "running" /\ gh_cmd = cmd /\ gh_attempt = 0
          /\ gh_last_error = <<>> /\ gh_ret = NoRet
          /\ gh_results = <<>> /\ gh_sleeps = <<>>

RunGhNext ==
    \/ GhAttemptNotFound
    \/ GhAttemptRun

\* a started subprocess.run ends: gh exits or is killed at the timeout
SpecRunGh == RunGhInit /\ [][RunGhNext]_vars /\ WF_vars(RunGhNext)

(***************************************************************************)
(* Properties of run_gh_command                                            *)
(***************************************************************************)
C1_RetryableFailure(result) ==
    \/ result.kind = "timeout"
    \/ result.kind = "exit" /\ result.rc # 0 /\ is_retryable_error(result.stderr)

C1_Stops ==
    LET n == Len(gh_results) IN
    /\ n <= MAX_RETRIES
    /\ \A k \in 1..(n - 1) : C1_RetryableFailure(gh_results[k])
    /\ gh_pc = "running" =>
          /\ n = gh_attempt
          /\ n < MAX_RETRIES
          /\ n >= 1 => C1_RetryableFailure(gh_results[n])
    /\ gh_pc = "returned" =>
          /\ n >= 1
          /\ LET last == gh_results[n] IN
             CASE last.kind = "notfound" ->
                    /\ n = 1
                    /\ gh_ret = [rc |-> 1, stdout |-> EmptyOut, stderr |-> E_not_found]
               [] last.kind = "timeout" ->
                    /\ n = MAX_RETRIES
                    /\ gh_ret = [rc |-> 1, stdout |-> EmptyOut, stderr |-> E_timed_out]
               [] last.kind = "exit" ->
                    /\ gh_ret = [rc |-> last.rc, stdout |-> last.stdout,
                                 stderr |-> last.stderr]
                    /\ C1_RetryableFailure(last) => n = MAX_RETRIES

\* C1: run_gh_command makes another attempt only after a retryable failure
\* (a timeout, or a nonzero exit whose stderr is_retryable_error accepts)
\* and while fewer than MAX_RETRIES attempts were made; otherwise it returns
\* the last attempt's outcome: a zero exit and a non-retryable exit at once,
\* (1, "", "gh command not found") after the single attempt that found no
\* executable, the last failure after attempt MAX_RETRIES.  So a call makes
\* between 1 and MAX_RETRIES attempts, and every call returns.
C1_RetryPolicy ==
    /\ []C1_Stops
    /\ (gh_pc = "running") ~> (gh_pc = "returned")

\* the last of MAX_RETRIES attempts failed again, after a timeout
C1_Witness ==
    /\ gh_pc = "returned"
    /\ Len(gh_results) = MAX_RETRIES
    /\ gh_results[1].kind = "timeout"
    /\ gh_results[MAX_RETRIES].kind = "exit"
    /\ gh_ret.rc # 0

\* C3: the i-th sleep of a call (i from 1) lasts RETRY_BASE_DELAY^(i-1)
\* seconds whatever the failure before it was, a timeout or a retryable
\* exit; there is one sleep after each attempt but the one the call returns
\* on, so none after a success, a non-retryable failure or the last attempt.
C3_Backoff ==
    /\ \A i \in 1..Len(gh_sleeps) : gh_sleeps[i] = RETRY_BASE_DELAY ^ (i - 1)
    /\ Len(gh_sleeps) = IF gh_pc = "returned" THEN Len(gh_results) - 1
                        ELSE Len(gh_results)

\* a timeout, then a retryable exit, then the returning attempt: 1s and 2s
C3_Witness ==
    /\ gh_pc = "returned"
    /\ gh_sleeps = <<1, 2>>
    /\ gh_results[1].kind = "timeout"
    /\ gh_results[2].kind = "exit"

(***************************************************************************)
(* Properties of a run                                                     *)
(***************************************************************************)
C4_Ops ==
    LET n == Len(ops) IN
    /\ n <= Len(stories)
    /\ \A k \in 1..n :
          /\ ops[k].story = k
          /\ ops[k].id = stories[k].id
          /\ IF stories[k].id \in DOMAIN existing_issues
             THEN /\ ops[k].kind = "update"
                  /\ ops[k].number = existing_issues[stories[k].id].number
             ELSE ops[k].kind = "create"
    /\ pc = "outbound" =>
          /\ n = story_i - 1
          /\ \A k \in 1..n : ops[k].state # "called"
    /\ pc = "outbound_wait" => n = story_i /\ ops[n].state = "called"
    /\ pc \in {"inbound", "return"} \/ (pc = "exit" /\ stories # <<>>) =>
          /\ n = IF outbound(direction) THEN Len(stories) ELSE 0
          /\ \A k \in 1..n : ops[k].state # "called"

\* C4: with direction both or to-github the outbound loop attempts one
\* operation per parsed story, in list order: an update of the indexed issue
\* when the story's id is a key of the index fetched before the loop (which
\* does not change afterwards), a create otherwise; whether an operation
\* failed or not, the stories after it get theirs.
C4_OneOperationPerStory ==
    /\ []C4_Ops
    /\ [][pc # "fetch_wait" => existing_issues' = existing_issues]_vars

\* the update of the first story failed and the second story was created
C4_Witness ==
    /\ pc = "exit"
    /\ Len(ops) = 2
    /\ ops[1].kind = "update" /\ ops[1].state = "failed"
    /\ ops[2].kind = "create" /\ ops[2].state = "ok"

\* C5: once the repository is resolved and a story is parsed, main exits
\* with 1 exactly when a create, an update or an inbound patch of a local
\* file failed, and with 0 otherwise.
C5_FailureIffOperationFailed ==
    pc = "exit" /\ parsed /\ stories # <<>> =>
        /\ exit_code \in {0, 1}
        /\ exit_code = 1 <=>
              \/ \E k \in DOMAIN ops : ops[k].state = "failed"
              \/ patch_errors # {}

\* C6: when the search finds no story file or no file parses into a story,
\* the run ends with exit code 0, no gh command (list, create, edit) was
\* started and no local file was written.
C6_NothingToSync ==
    parsed /\ stories = <<>> =>
        /\ pc = "exit"
        /\ exit_code = 0
        /\ executed = {}
        /\ gh_pc = "idle"
        /\ ops = <<>>
        /\ files = files0
        /\ remote = remote0

\* files were found, none of them gave a story
C6_Witness ==
    /\ parsed
    /\ stories = <<>>
    /\ Len(files) = MaxFiles
    /\ pc = "exit"

\* C7: a create_issue that ran its command reports success exactly when the
\* command exited 0 and its output holds "/issues/<digits>", and then with
\* that number; on a nonzero exit and on an output without the identifier it
\* reports failure without a number, `success` is False from then on and
\* the run exits with 1.
C7_CreateResult ==
    \A k \in DOMAIN ops :
        ops[k].kind = "create" /\ ops[k].state # "called" /\ ops[k].rc # -1 =>
            LET m == search_issue_number(ops[k].stdout)
                identified == ops[k].rc = 0 /\ m.ok
            IN /\ ops[k].state = "ok" <=> identified
               /\ identified => ops[k].issue_number = m.number
               /\ ~identified =>
                     /\ ops[k].issue_number = 0
                     /\ ~success
                     /\ pc = "exit" => exit_code = 1

\* a create exited 0 without an identifier and the run ended with 1
C7_Witness ==
    /\ pc = "exit"
    /\ exit_code = 1
    /\ \E k \in DOMAIN ops :
          /\ ops[k].kind = "create"
          /\ ops[k].rc = 0
          /\ ~search_issue_number(ops[k].stdout).ok
          /\ ops[k].state = "failed"

\* C8: in a dry run no create and no edit command is started, no local file
\* is written, every create and update returns success without a command,
\* and the tracker's issues and the files stay as they were.
C8_DryRun ==
    dry_run =>
        /\ executed \subseteq {"list"}
        /\ files = files0
        /\ remote = remote0
        /\ success
        /\ \A k \in DOMAIN ops : ops[k].state = "ok" /\ ops[k].rc = -1

\* a dry run in both directions that skipped an update, a create, and the
\* write of a file the issue would have changed
C8_Witness ==
    /\ dry_run
    /\ pc = "exit"
    /\ direction = "both"
    /\ Len(ops) = 2
    /\ ops[1].kind = "update" /\ ops[2].kind = "create"
    /\ LET issue == existing_issues[stories[1].id]
           content == files[stories[1].file_path].content
       IN update_local_doc_content(content,
              [labels |-> issue.labels, body |-> issue.body]) # content

(***************************************************************************)
(* Specification of the round trip: a story file is parsed, its issue body *)
(* built, and update_local_doc run on the file with that body              *)
(***************************************************************************)
MaxItems == 2

\* the {text, checked} items a checkbox section may list
RoundTripItems == [text : {<<"a">>, <<"b">>}, checked : BOOLEAN]

RoundTripLists == UNION { [1..n -> RoundTripItems] : n \in 0..MaxItems }

\* a checkbox section of a story file: header, blank line, one line per item
section_of(name, items) ==
    IF items = <<>> THEN <<>>
    ELSE section_mark(name) \o <<NL, NL>>
         \o file_of([i \in 1..Len(items) |-> checkbox_line(items[i])]) \o <<NL>>

\* the story file US-1-s.md with the given acceptance criteria and tasks
round_trip_file(content) ==
    [stem |-> <<"U", "S", "-", "1", "-", "s">>,
     epic |-> <<"e", "p", "i", "c", "-", "1", "-", "x">>,
     content |-> content]

round_trip_content(acceptance_criteria, tasks) ==
    <<"#", " ", "T", NL, NL>>
    \o section_of(N_acceptance_criteria, acceptance_criteria)
    \o section_of(N_tasks, tasks)

RoundTripInit ==
    /\ ld_content \in { round_trip_content(ac, ts) :
                          ac \in RoundTripLists, ts \in RoundTripLists }
    /\ ld_issue = [labels |-> <<>>, body |-> <<>>]
    /\ ld_pc = "parse"
    /\ ld_status_out = <<>>
    /\ ld_out = <<>>
    /\ ClassifyIdle
    /\ LabelIdle
    /\ RunIdle

\* outbound: parse_user_story on the file, build_issue_body on the story
RoundTripBuild ==
    /\ ld_pc = "parse"
    /\ ld_pc' = "call"
    /\ ld_issue' =
          [labels |-> <<>>,
           body |-> build_issue_body(
                        parse_user_story(round_trip_file(ld_content), 1).story)]
    /\ UNCHANGED <<ld_content, ld_status_out, ld_out, classifyVars, labelVars, runVars>>

RoundTripNext ==
    \/ RoundTripBuild
    \/ LocalDocUpdate

SpecRoundTrip == RoundTripInit /\ [][RoundTripNext]_vars

C11_Checked(items) == [i \in 1..Len(items) |-> items[i].checked]

\* C11: after the story's own body is reconciled into its file, every
\* acceptance criterion and every task of the file has the checked state it
\* had before (duplicate texts allowed).
C11_RoundTrip ==
    ld_pc = "computed" =>
        LET before == parse_user_story(round_trip_file(ld_content), 1).story
            after == parse_user_story(round_trip_file(ld_out), 1).story
        IN /\ C11_Checked(after.acceptance_criteria)
                = C11_Checked(before.acceptance_criteria)
           /\ C11_Checked(after.tasks) = C11_Checked(before.tasks)

\* the same, for stories in which no text occurs twice
C11_RoundTripDistinct ==
    ld_pc = "computed" =>
        LET before == parse_user_story(round_trip_file(ld_content), 1).story
            after == parse_user_story(round_trip_file(ld_out), 1).story
            items == before.acceptance_criteria \o before.tasks
        IN (\A i, j \in 1..Len(items) : items[i].text = items[j].text => i = j) =>
              /\ after.acceptance_criteria = before.acceptance_criteria
              /\ after.tasks = before.tasks

(***************************************************************************)
(* Specification of update_local_doc's status step on bounded files        *)
(***************************************************************************)
MaxStatusLines == 3

\* Lines of a story file around its status: a title, status lines with a
\* value, with the value Done and with no value yet, a section header, a
\* checkbox line, plain text.
StatusLines ==
    { <<"#", " ", "T">>,
      T_status \o <<" ", "D", "r", "a", "f", "t">>,
      T_status_done,
      T_status,
      section_mark(N_tasks),
      <<"-", " ", "[", " ", "]", " ", "a">>,
      <<"n">> }

\* Issue bodies: none, one that speaks of the status, one with a checked item.
StatusBodies ==
    { <<>>,
      T_status_done,
      <<"-", " ", "[", "x", "]", " ", "a">> }

\* the file's text: each line ended by a newline
StatusFiles ==
    { file_of(ls) : ls \in UNION { [1..n -> StatusLines] : n \in 1..MaxStatusLines } }

StatusInit ==
    /\ ld_content \in StatusFiles
    /\ ld_issue \in
          { [labels |-> lbs, body |-> b] :
              lbs \in { <<L_user_story>>, <<L_user_story, L_done>> },
              b \in StatusBodies }
    /\ ld_pc = "call"
    /\ ld_status_out = <<>>
    /\ ld_out = <<>>
    /\ ClassifyIdle
    /\ LabelIdle
    /\ RunIdle

StatusNext == LocalDocUpdate

SpecStatus == StatusInit /\ [][StatusNext]_vars

C12_HasStatus(line) == str_in(T_status, line)

\* the line with everything from the status marker on replaced
C12_Patched(line) ==
    LET at == first_of({i \in 1..Len(line) : literal_at(line, i, T_status)})
    IN SubSeq(line, 1, at - 1) \o T_status_done

C12_IsTitle(line) ==
    Len(line) >= 3 /\ line[1] = "#" /\ is_space(line[2]) /\ ~is_space(line[3])

\* what the claim says the status step yields, line by line
C12_Expected(before, is_done, marker_reads_done) ==
    IF ~is_done \/ marker_reads_done THEN before
    ELSE IF \E i \in 1..Len(before) : C12_HasStatus(before[i])
    THEN [i \in 1..Len(before) |->
             IF C12_HasStatus(before[i]) THEN C12_Patched(before[i]) ELSE before[i]]
    ELSE IF \E i \in 1..Len(before) : C12_IsTitle(before[i])
    THEN LET t == first_of({i \in 1..Len(before) : C12_IsTitle(before[i])})
         IN SubSeq(before, 1, t) \o << <<>>, T_status_done >>
            \o SubSeq(before, t + 1, Len(before))
    ELSE before

C12_LabelsOnly ==
    ld_status_out = update_status(ld_content, [labels |-> ld_issue.labels, body |-> <<>>])

\* C12: the status step looks at the issue's labels only.  With the "done"
\* label and no "**Status:** Done" in the file, a present status line is
\* replaced in place by "**Status:** Done" and every other line is kept, or,
\* with no status line, the Done line is inserted right after the title
\* line; without the label the status lines stay as they are, whatever the
\* body holds.
C12_StatusPatch ==
    ld_pc = "computed" =>
        LET before == split_lines(ld_content)
            is_done == \E i \in 1..Len(ld_issue.labels) : ld_issue.labels[i] = L_done
        IN /\ C12_LabelsOnly
           /\ split_lines(ld_status_out)
                 = C12_Expected(before, is_done, str_in(T_status_done, ld_content))
           /\ ~is_done =>
                 LET after == split_lines(ld_out)
                 IN /\ Len(after) = Len(before)
                    /\ \A i \in 1..Len(before) :
                          C12_HasStatus(before[i]) => after[i] = before[i]

\* the same, for files whose status lines all carry a value
C12_StatusPatchWithValue ==
    LET before == split_lines(ld_content)
    IN (\A i \in 1..Len(before) : before[i] # T_status) => C12_StatusPatch

(***************************************************************************)
(* Retried commands and the tracker                                        *)
(***************************************************************************)
\* C13: whatever attempts of one run_gh_command call took effect, a create
\* or an edit leaves the tracker as it was before the call or as it is after
\* the command took effect once; so one call creates at most one issue.
C13_IdempotentOnRetry ==
    gh_cmd.kind \in {"create", "edit"} =>
        /\ remote \in {remote0, tracker_apply(remote0, gh_cmd)}
        /\ Len(remote) <= Len(remote0) + 1

\* the same, for edit commands only
C13_EditIdempotent ==
    gh_cmd.kind = "edit" => remote \in {remote0, tracker_apply(remote0, gh_cmd)}

(***************************************************************************)
(* Consistency after a run in both directions                              *)
(***************************************************************************)
\* the story's file and its indexed issue agree: every checkbox item of the
\* file has the state of the issue body's item with the same text, and the
\* file's status is Done exactly when the issue carries "done"
C14_Consistent(story) ==
    LET issue == remote[existing_issues[story.id].number]
        local == parse_user_story(files[story.file_path], story.file_path).story
        items == local.acceptance_criteria \o local.tasks
        issue_checked == checkbox_texts("checked", issue.body, 1)
        issue_unchecked == checkbox_texts("unchecked", issue.body, 1)
    IN /\ status_is_done(local) <=> L_done \in issue.labels
       /\ \A i \in 1..Len(items) :
             /\ items[i].text \in issue_checked => items[i].checked
             /\ items[i].text \in issue_unchecked => ~items[i].checked

\* C14: when a run with direction both, not a dry run, ends with exit code 0
\* (and no file error), every story with an issue in the fetched index is
\* consistent with that issue as the tracker then holds it.
C14_ConsistentAfterBoth ==
    /\ pc = "exit"
    /\ exit_code = 0
    /\ ~dry_run
    /\ direction = "both"
    /\ patch_errors = {}
    => \A k \in DOMAIN stories :
          stories[k].id \in DOMAIN existing_issues => C14_Consistent(stories[k])
====
